---------------------------- MODULE Spec2Model ----------------------------
(***************************************************************************)
(* Model of butterflow's setup.py: the dependency probes, the name         *)
(* canonicalisation, the pkg-config output parser, the ldconfig lookup,    *)
(* the environment augmentation, the dependency gate and the module-level  *)
(* flag and Extension assembly.                                            *)
(*                                                                         *)
(* A Python str is a sequence of one-character strings, so that slicing,   *)
(* find, startswith, split and strip are computed character by character.  *)
(***************************************************************************)
EXTENDS Integers, Sequences, FiniteSets, TLC

VARIABLES
  pc,        \* position of the running script or of the unit call
  call,      \* unit calls: the function called and its arguments
  res,       \* unit calls: the outcome of the call
  heap,      \* dict objects; heap[1] is os.environ
  ncalls,    \* unit calls: number of get_extra_envs() calls made so far
  sysinfo,   \* sys.platform and sys.version_info of the interpreter
  world,     \* what the run has observed of the machine so far
  glob,      \* the module-level names of setup.py
  gate,      \* the activation of check_dependencies()
  log,       \* subprocesses launched and descriptors built, in order
  out        \* what the process printed, its exit status, setup()'s arguments

vars == <<pc, call, res, heap, ncalls, sysinfo, world, glob, gate, log, out>>
unitvars == <<call, res, ncalls>>
runvars == <<sysinfo, world, glob, gate, log, out>>

(***************************************************************************)
(* Python str operations                                                   *)
(***************************************************************************)
Whitespace == {" ", "\t", "\n"}

MinOf(S) == CHOOSE x \in S : \A y \in S : x <= y
\* (TLC tries the candidates in ascending order: the least is found at once)
MaxOf(S) == 0 - MinOf({0 - x : x \in S})

\* s[i:] with a 0-based Python index i >= 0
From(s, i) == SubSeq(s, i + 1, Len(s))
\* s[:i] with a 0-based Python index i >= 0
Upto(s, i) == SubSeq(s, 1, IF i > Len(s) THEN Len(s) ELSE i)

startswith(s, p) == Len(p) <= Len(s) /\ SubSeq(s, 1, Len(p)) = p
endswith(s, p) == Len(p) <= Len(s) /\ SubSeq(s, Len(s) - Len(p) + 1, Len(s)) = p

\* str.find: the lowest 0-based index of y in x, or -1
find(x, y) ==
  LET hits == {i \in 0..(Len(x) - Len(y)) : SubSeq(x, i + 1, i + Len(y)) = y}
  IN IF hits = {} THEN -1 ELSE MinOf(hits)

\* str.rfind: the highest 0-based index of y in x, or -1
rfind(x, y) ==
  LET hits == {i \in 0..(Len(x) - Len(y)) : SubSeq(x, i + 1, i + Len(y)) = y}
  IN IF hits = {} THEN -1 ELSE MaxOf(hits)

\* y in x, for strings
contains(x, y) == find(x, y) # -1

\* str.strip(): leading and trailing whitespace removed
strip(s) ==
  LET keep == {i \in 1..Len(s) : s[i] \notin Whitespace}
  IN IF keep = {} THEN <<>> ELSE SubSeq(s, MinOf(keep), MaxOf(keep))

\* str.rstrip('/')
rstrip_slash(s) ==
  LET keep == {i \in 1..Len(s) : s[i] # "/"}
  IN IF keep = {} THEN <<>> ELSE SubSeq(s, 1, MaxOf(keep))

\* str.split(sep) with a non-empty separator: every occurrence splits, empty
\* fields are kept
RECURSIVE split(_, _)
split(s, sep) ==
  LET i == find(s, sep)
  IN IF i = -1 THEN <<s>>
     ELSE <<Upto(s, i)>> \o split(From(s, i + Len(sep)), sep)

\* posixpath.basename
basename(p) == From(p, rfind(p, <<"/">>) + 1)

\* posixpath.dirname
dirname(p) ==
  LET head == Upto(p, rfind(p, <<"/">>) + 1)
  IN IF head # <<>> /\ (\E k \in 1..Len(head) : head[k] # "/")
     THEN rstrip_slash(head) ELSE head

\* posixpath.join(a, b)
join(a, b) ==
  IF startswith(b, <<"/">>) THEN b
  ELSE IF a = <<>> \/ endswith(a, <<"/">>) THEN a \o b
  ELSE a \o <<"/">> \o b

(***************************************************************************)
(* get_lib_short_name                                                      *)
(***************************************************************************)
\* chop_at cutting at the last occurrence of y instead of the first: a
\* variant C4 tells from the code
chop_at_last(x, y) ==
  LET idx == rfind(x, y)
  IN IF idx # -1 THEN Upto(x, idx) ELSE x

chop_at(x, y) ==
  LET idx == find(x, y)
  IN IF idx # -1 THEN Upto(x, idx) ELSE x

get_lib_short_name(name) ==
  LET n1 == basename(strip(name))
      n2 == IF startswith(n1, <<"-","l">>) THEN From(n1, 2) ELSE n1
      n3 == IF startswith(n2, <<"l","i","b">>) THEN From(n2, 3) ELSE n2
  IN chop_at(chop_at(chop_at(n3, <<".","s","o">>), <<".","d","y","l","i","b">>), <<".","a">>)


(***************************************************************************)
(* Outcomes of a call: a returned value or a raised exception, with the    *)
(* subprocesses the call launched (or tried to launch), in order.          *)
(***************************************************************************)
NoneVal == <<"None">>   \* Python's None (no str has a several-character element)

Return(v, cs) == [kind |-> "return", val |-> v, exc |-> "", calls |-> cs]
Raise(e, cs) == [kind |-> "raise", val |-> NoneVal, exc |-> e, calls |-> cs]

\* what the operating system does with one subprocess invocation
Launched(status, stdout) == [launched |-> TRUE, status |-> status, stdout |-> stdout]
NoLaunch == [launched |-> FALSE, status |-> 127, stdout |-> <<>>]

Invocation(argv, env) == [argv |-> argv, env |-> env]

(***************************************************************************)
(* get_extra_envs, on a heap of dict objects: heap[1] is os.environ        *)
(***************************************************************************)
DictSet(d, k, v) == [x \in (DOMAIN d) \cup {k} |-> IF x = k THEN v ELSE d[x]]

local_pkg_config_paths ==
  <<"/","u","s","r","/","l","o","c","a","l","/","l","i","b","/","p","k","g","c","o","n","f","i","g",":">> \o <<"/","u","s","r","/","l","o","c","a","l","/","p","k","g","c","o","n","f","i","g",":">> \o <<"/","u","s","r","/","s","h","a","r","e","/","p","k","g","c","o","n","f","i","g">>

\* get_extra_envs without the copy (env = os.environ): a variant C5 tells
\* from the code
get_extra_envs_nocopy(h) ==
  LET env == 1
      v == IF "PKG_CONFIG_PATH" \in DOMAIN h[env]
           THEN h[env]["PKG_CONFIG_PATH"] \o <<":">> \o local_pkg_config_paths
           ELSE local_pkg_config_paths
  IN [heap |-> [h EXCEPT ![env] = DictSet(h[env], "PKG_CONFIG_PATH", v)],
      ret |-> env]

get_extra_envs(h) ==
  LET env == Len(h) + 1                       \* env = os.environ.copy()
      h1 == Append(h, h[1])
      v == IF "PKG_CONFIG_PATH" \in DOMAIN h1[env]
           THEN h1[env]["PKG_CONFIG_PATH"] \o <<":">> \o local_pkg_config_paths
           ELSE local_pkg_config_paths
  IN [heap |-> [h1 EXCEPT ![env] = DictSet(h1[env], "PKG_CONFIG_PATH", v)],
      ret |-> env]

\* the dict a caller passes as env=get_extra_envs() when os.environ is environ
extra_envs(environ) ==
  LET r == get_extra_envs(<<environ>>) IN r.heap[r.ret]

(***************************************************************************)
(* pkg_config_res                                                          *)
(***************************************************************************)
RECURSIVE pkg_config_loop(_, _, _)
pkg_config_loop(toks, lst, cs) ==
  IF toks = <<>> THEN Return(lst, cs)
  ELSE IF Head(toks) = <<>> THEN pkg_config_loop(Tail(toks), lst, cs)
  ELSE
    LET x1 == strip(Head(toks))
    IN IF x1 = <<>> THEN Raise("IndexError", cs)            \* x[0] of ''
       ELSE
         LET x2 == IF x1[1] = "-" THEN From(x1, 1) ELSE x1
         IN IF x2 = <<>> THEN Raise("IndexError", cs)       \* x[0] of ''
            ELSE IF x2[1] \in {"l", "L", "I"}
                 THEN pkg_config_loop(Tail(toks), Append(lst, From(x2, 1)), cs)
                 ELSE pkg_config_loop(Tail(toks),
                                      Append(lst, get_lib_short_name(x2)), cs)

pkg_config_res(opts, environ, run) ==
  LET cs == <<Invocation(<<<<"p","k","g","-","c","o","n","f","i","g">>>> \o opts, extra_envs(environ))>>
  IN IF ~run.launched THEN Raise("OSError", cs)
     ELSE pkg_config_loop(split(strip(run.stdout), <<" ">>), <<>>, cs)


(***************************************************************************)
(* The probes: have_command, have_library, have_library_object_file        *)
(***************************************************************************)
\* `run` is what happens to subprocess.call(['which', name]); the child
\* inherits os.environ
have_command(name, environ, run) ==
  LET cs == <<Invocation(<<<<"w","h","i","c","h">>, name>>, environ)>>
  IN IF ~run.launched THEN Raise("OSError", cs)
     ELSE Return(run.status = 0, cs)

\* `found` is whether ctypes.util.find_library(short_name) returned a name;
\* `run` is what happens to subprocess.call(['pkg-config', '--exists', name])
have_library(name, environ, found, run) ==
  LET short_name == get_lib_short_name(name)
      c1 == Invocation(<<<<"f","i","n","d","_","l","i","b","r","a","r","y">>, short_name>>, environ)
      c2 == Invocation(<<<<"p","k","g","-","c","o","n","f","i","g">>, <<"-","-","e","x","i","s","t","s">>, name>>, extra_envs(environ))
  IN IF ~found
     THEN IF ~run.launched THEN Raise("OSError", <<c1, c2>>)
          ELSE Return(run.status = 0, <<c1, c2>>)
     ELSE Return(TRUE, <<c1>>)

\* map(f, lst)
map_short_name(lst) == [i \in 1..Len(lst) |-> get_lib_short_name(lst[i])]

\* x in lst
in_list(x, lst) == \E i \in 1..Len(lst) : lst[i] = x

\* `libs_run` is what happens to Popen(['pkg-config', '--libs', libname])
have_library_object_file(libname, name, environ, found, run, libs_run) ==
  LET h == have_library(libname, environ, found, run)
      c == Invocation(<<<<"p","k","g","-","c","o","n","f","i","g">>, <<"-","-","l","i","b","s">>, libname>>, extra_envs(environ))
  IN IF h.kind = "raise" THEN h
     ELSE IF h.val
     THEN IF ~libs_run.launched THEN Raise("OSError", Append(h.calls, c))
          ELSE LET r == map_short_name(split(strip(libs_run.stdout), <<" ">>))
               IN Return(in_list(get_lib_short_name(name), r), Append(h.calls, c))
     ELSE Return(FALSE, h.calls)

(***************************************************************************)
(* get_lib_installed_path, get_lib_filename_namespec                       *)
(***************************************************************************)
RECURSIVE installed_path_loop(_, _, _)
installed_path_loop(entries, libname, cs) ==
  IF entries = <<>> THEN Return(NoneVal, cs)
  ELSE IF startswith(Head(entries), libname)
  THEN LET y == split(Head(entries), <<"=",">">>)
       IN IF Len(y) < 2 THEN Raise("IndexError", cs)       \* y[1]
          ELSE Return(strip(y[2]), cs)
  ELSE installed_path_loop(Tail(entries), libname, cs)

\* `run` is what happens to Popen(['ldconfig', '-p'])
get_lib_installed_path(libname, environ, run) ==
  LET cs == <<Invocation(<<<<"l","d","c","o","n","f","i","g">>, <<"-","p">>>>, environ)>>
  IN IF ~run.launched THEN Raise("OSError", cs)
     ELSE IF ~contains(run.stdout, libname) THEN Return(NoneVal, cs)
     ELSE installed_path_loop(split(run.stdout, <<"\n","\t">>), libname, cs)

\* os.path.basename(None) and os.path.dirname(None) raise AttributeError
\* ('NoneType' object has no attribute 'rfind') in Python 2
get_lib_filename_namespec(libname, environ, run) ==
  LET p == get_lib_installed_path(libname, environ, run)
  IN IF p.kind = "raise" THEN p
     ELSE IF p.val = NoneVal THEN Raise("AttributeError", p.calls)
     ELSE Return(<<":">> \o basename(p.val), p.calls)


(***************************************************************************)
(* The machine, observed as the run goes: a fact is fixed by the first     *)
(* subprocess or lookup that depends on it and later ones agree with it.   *)
(***************************************************************************)
EmptyDict == [k \in {} |-> <<>>]

\* tools: program name -> whether it is on PATH (so that it can be launched
\*        and `which` finds it)
\* found: short name -> whether ctypes.util.find_library finds it
\* exists: package -> whether pkg-config knows it
\* stdout: argv -> the standard output of that command
\* cv2: whether `import cv2` succeeds (a dict with the one key "cv2")
NothingObserved ==
  [tools |-> EmptyDict, found |-> EmptyDict, exists |-> EmptyDict,
   stdout |-> EmptyDict, cv2 |-> EmptyDict]

Agrees(d, k, v) == k \in DOMAIN d => d[k] = v

\* subprocess.call(argv) of a program: not launched when the program is not
\* on PATH, else its exit status says whether `ok`
CallRun(onpath, ok) ==
  IF ~onpath THEN NoLaunch ELSE Launched(IF ok THEN 0 ELSE 1, <<>>)

(***************************************************************************)
(* Module-level names (lines 11-15, 208-224, 275-375)                      *)
(***************************************************************************)
Str(s) == [t |-> "str", v |-> s]
List(l) == [t |-> "list", v |-> l]
None == [t |-> "None", v |-> <<>>]

\* '{}'.format(n) for a one-digit n
Digit(n) == <<<<"0">>, <<"1">>, <<"2">>, <<"3">>, <<"4">>, <<"5">>, <<"6">>,
              <<"7">>, <<"8">>, <<"9">>>>[n + 1]

\* py_ver = '{}.{}'.format(py_ver_X, py_ver_Y)
py_ver == Digit(sysinfo.major) \o <<".">> \o Digit(sysinfo.minor)

is_linux == startswith(sysinfo.platform, <<"l","i","n","u","x">>)
is_darwin == startswith(sysinfo.platform, <<"d","a","r","w","i","n">>)

\* the directory of setup.py
ROOT_PATH == <<"/","s","r","c">>
B_MEDIA == join(join(ROOT_PATH, <<"b","u","t","t","e","r","f","l","o","w">>), <<"m","e","d","i","a">>)
B_MOTION == join(join(ROOT_PATH, <<"b","u","t","t","e","r","f","l","o","w">>), <<"m","o","t","i","o","n">>)
B_VENDOR == join(join(ROOT_PATH, <<"b","u","t","t","e","r","f","l","o","w">>), <<"3","r","d","p","a","r","t","y">>)

NoGlobals ==
  [homebrew_prefix |-> None, homebrew_site_pkgs |-> None,
   cflags |-> <<>>, linkflags |-> <<>>, includes |-> <<>>, ldflags |-> <<>>,
   py_includes |-> None, py_libs |-> None, libav_libs |-> <<>>,
   py_prefix |-> <<>>, cv_includes |-> <<>>, cv_libs |-> <<>>,
   cl_ldflag |-> None, cl_lib |-> None,
   ext_modules |-> <<>>, sys_path |-> <<>>]

NoOutput == [stdout |-> <<>>, status |-> -1, setup |-> <<>>, exc |-> ""]

Spawn(c) == [ev |-> "spawn", argv |-> c.argv, env |-> c.env]
Spawns(cs) == [i \in 1..Len(cs) |-> Spawn(cs[i])]

(***************************************************************************)
(* check_dependencies (lines 227-272), one requirement per step            *)
(***************************************************************************)
Req(kind, a, b) == [kind |-> kind, a |-> a, b |-> b]

tools ==
  <<<<"p","k","g","-","c","o","n","f","i","g">>>>
  \o (IF is_linux THEN <<<<"l","d","c","o","n","f","i","g">>>> ELSE <<>>)
  \o <<<<"p","y","t","h","o","n">> \o py_ver \o <<"-","c","o","n","f","i","g">>>>

libraries == <<<<"o","p","e","n","c","v">>, <<"a","v","f","o","r","m","a","t">>, <<"a","v","c","o","d","e","c">>, <<"a","v","u","t","i","l">>, <<"O","p","e","n","C","L">>>>

object_files ==
  <<<<<<"o","p","e","n","c","v">>, <<"l","i","b","o","p","e","n","c","v","_","o","c","l",".","s","o">>>>,
    <<<<"o","p","e","n","c","v">>, <<"l","i","b","o","p","e","n","c","v","_","c","o","r","e",".","s","o">>>>,
    <<<<"o","p","e","n","c","v">>, <<"l","i","b","o","p","e","n","c","v","_","i","m","g","p","r","o","c",".","s","o">>>>>>

\* the requirements in the order check_dependencies evaluates them
Requirements ==
  <<Req("version", <<>>, <<>>)>>
  \o [i \in 1..Len(tools) |-> Req("tool", tools[i], <<>>)]
  \o [i \in 1..Len(libraries) |-> Req("library", libraries[i], <<>>)]
  \o [i \in 1..Len(object_files) |->
        Req("object", object_files[i][1], object_files[i][2])]
  \o <<Req("import", <<"c","v","2">>, <<>>)>>

\* the message of the return statement that reports requirement r
ErrorMessage(r) ==
  CASE r.kind = "version" -> <<"P","y","t","h","o","n"," ">> \o py_ver \o <<" ","i","s"," ","n","o","t"," ","v","e","r","s","i","o","n"," ","2",".","x">>
    [] r.kind = "tool" -> r.a \o <<" ","i","s"," ","n","e","e","d","e","d"," ","t","o"," ","c","o","m","p","l","e","t","e"," ","t","h","e"," ","b","u","i","l","d"," ","p","r","o","c","e","s","s">>
    [] r.kind = "library" ->
         r.a \o <<" ","l","i","b","r","a","r","y"," ","i","s"," ","n","e","e","d","e","d"," ","t","o"," ","c","o","m","p","l","e","t","e"," ","t","h","e"," ","b","u","i","l","d"," ","p","r","o","c","e","s","s">>
    [] r.kind = "object" -> r.a \o <<" ","l","i","b","r","a","r","y"," ","i","s"," ","m","i","s","s","i","n","g"," ","o","b","j","e","c","t"," ","f","i","l","e"," ">> \o r.b
    [] r.kind = "import" -> <<"o","p","e","n","c","v"," ","b","u","i","l","t"," ","w","i","t","h"," ","B","U","I","L","D","_","o","p","e","n","c","v","_","p","y","t","h","o","n","=","O","N"," ","r","e","q","u","i","r","e","d">>

GateIdle ==
  [status |-> "idle", step |-> 0, probes |-> <<>>, ret |-> FALSE, error |-> NoneVal]

GateStart == [GateIdle EXCEPT !.status = "running", !.step = 1]

Probe(r, outcome) == [req |-> r, outcome |-> outcome]

\* the effect on the activation of the check of requirement r ending in
\* outcome o: "pass", "fail", or "raise" (an exception leaves the function)
GateAfter(g, r, o) ==
  LET probes == Append(g.probes, Probe(r, o))
  IN CASE o = "raise" -> [g EXCEPT !.status = "raised", !.probes = probes]
       [] o = "fail" -> [g EXCEPT !.status = "returned", !.probes = probes,
                                  !.ret = FALSE, !.error = ErrorMessage(r)]
       [] o = "pass" ->
            IF g.step = Len(Requirements)
            THEN [g EXCEPT !.status = "returned", !.probes = probes,
                           !.ret = TRUE, !.error = NoneVal]
            ELSE [g EXCEPT !.step = g.step + 1, !.probes = probes]

OutcomeOf(r) ==
  IF r.kind = "raise" THEN "raise" ELSE IF r.val THEN "pass" ELSE "fail"

GateAt(kind) ==
  /\ gate.status = "running"
  /\ Requirements[gate.step].kind = kind

\* line 229
CheckVersion ==
  /\ GateAt("version")
  /\ gate' = GateAfter(gate, Requirements[gate.step],
                       IF sysinfo.major # 2 THEN "fail" ELSE "pass")
  /\ UNCHANGED <<pc, heap, sysinfo, world, glob, log, out, unitvars>>

\* lines 236-238, one iteration
CheckTool ==
  /\ GateAt("tool")
  /\ LET r == Requirements[gate.step]
     IN \E which \in BOOLEAN, present \in BOOLEAN :
          /\ Agrees(world.tools, <<"w","h","i","c","h">>, which)
          /\ which => Agrees(world.tools, r.a, present)
          /\ ~which => ~present
          /\ LET h == have_command(r.a, heap[1], CallRun(which, present))
                 t1 == DictSet(world.tools, <<"w","h","i","c","h">>, which)
             IN /\ gate' = GateAfter(gate, r, OutcomeOf(h))
                /\ log' = log \o Spawns(h.calls)
                /\ world' = [world EXCEPT
                               !.tools = IF which THEN DictSet(t1, r.a, present) ELSE t1]
  /\ UNCHANGED <<pc, heap, sysinfo, glob, out, unitvars>>

\* what the machine answers have_library(name): find_library's result and
\* the run of `pkg-config --exists name`, which is reached only when
\* find_library found nothing (the answers not reached are fixed to TRUE)
FoundAnswer(w, name, found) == Agrees(w.found, get_lib_short_name(name), found)

OnPathAnswer(w, found, onpath) ==
  IF found THEN onpath ELSE Agrees(w.tools, <<"p","k","g","-","c","o","n","f","i","g">>, onpath)

ExistsAnswer(w, name, found, onpath, exists) ==
  IF ~found /\ onpath THEN Agrees(w.exists, name, exists) ELSE exists

LibraryObserved(w, name, found, onpath, exists) ==
  LET w1 == [w EXCEPT !.found = DictSet(w.found, get_lib_short_name(name), found)]
      w2 == [w1 EXCEPT !.tools = DictSet(w1.tools, <<"p","k","g","-","c","o","n","f","i","g">>, onpath)]
  IN IF found THEN w1
     ELSE IF ~onpath THEN w2
     ELSE [w2 EXCEPT !.exists = DictSet(w2.exists, name, exists)]

\* lines 239-246, one iteration
CheckLibrary ==
  /\ GateAt("library")
  /\ LET r == Requirements[gate.step]
     IN \E found \in {b \in BOOLEAN : FoundAnswer(world, r.a, b)} :
        \E onpath \in {b \in BOOLEAN : OnPathAnswer(world, found, b)} :
        \E exists \in {b \in BOOLEAN : ExistsAnswer(world, r.a, found, onpath, b)} :
          /\ LET h == have_library(r.a, heap[1], found, CallRun(onpath, exists))
             IN /\ gate' = GateAfter(gate, r, OutcomeOf(h))
                /\ log' = log \o Spawns(h.calls)
                /\ world' = LibraryObserved(world, r.a, found, onpath, exists)
  /\ UNCHANGED <<pc, heap, sysinfo, glob, out, unitvars>>

\* stdout of `pkg-config --libs opencv`
LibsOutputs ==
  {<<"-","L","/","u","s","r","/","l","i","b"," ","-","l","o","p","e","n","c","v","_","c","o","r","e"," ","-","l","o","p","e","n","c","v","_","o","c","l"," ","-","l","o","p","e","n","c","v","_","i","m","g","p","r","o","c","\n">>,
   <<"/","u","s","r","/","l","i","b","/","l","i","b","o","p","e","n","c","v","_","c","o","r","e",".","s","o"," ","/","u","s","r","/","l","i","b","/","l","i","b","o","p","e","n","c","v","_","o","c","l",".","s","o",".","2",".","4"," ","/","u","s","r","/","l","i","b","/","l","i","b","o","p","e","n","c","v","_","i","m","g","p","r","o","c",".","s","o","\n">>,
   <<"-","l","o","p","e","n","c","v","_","c","o","r","e"," ","-","l","o","p","e","n","c","v","_","i","m","g","p","r","o","c","\n">>,
   <<"-","l","o","p","e","n","c","v","_","o","c","l"," "," ","-","l","o","p","e","n","c","v","_","c","o","r","e","\n">>}


\* what the machine answers have_library_object_file(libname, name): as
\* for have_library, and the run of `pkg-config --libs libname`, which
\* prints nothing and fails for a package pkg-config does not know
LibsOnPathAnswer(w, onpath) == Agrees(w.tools, <<"p","k","g","-","c","o","n","f","i","g">>, onpath)

LibsExistsAnswer(w, libname, onpath, exists) ==
  IF onpath THEN Agrees(w.exists, libname, exists) ELSE exists

LibsStdoutAnswer(w, libname, onpath, exists, stdout) ==
  IF onpath /\ exists
  THEN /\ stdout # <<>>
       /\ Agrees(w.stdout, <<<<"p","k","g","-","c","o","n","f","i","g">>, <<"-","-","l","i","b","s">>, libname>>, stdout)
  ELSE stdout = <<>>

ObjectFileObserved(w, libname, found, onpath, exists, stdout) ==
  LET w1 == [w EXCEPT !.found = DictSet(w.found, get_lib_short_name(libname), found),
                      !.tools = DictSet(w.tools, <<"p","k","g","-","c","o","n","f","i","g">>, onpath)]
      w2 == [w1 EXCEPT !.exists = DictSet(w1.exists, libname, exists)]
  IN IF ~onpath THEN w1
     ELSE IF ~exists THEN w2
     ELSE [w2 EXCEPT !.stdout =
             DictSet(w2.stdout, <<<<"p","k","g","-","c","o","n","f","i","g">>, <<"-","-","l","i","b","s">>, libname>>, stdout)]

LibsRun(onpath, exists, stdout) ==
  IF ~onpath THEN NoLaunch
  ELSE IF exists THEN Launched(0, stdout) ELSE Launched(1, <<>>)

\* lines 247-251, one iteration
CheckObjectFile ==
  /\ GateAt("object")
  /\ LET r == Requirements[gate.step]
     IN \E found \in {b \in BOOLEAN : FoundAnswer(world, r.a, b)} :
        \E onpath \in {b \in BOOLEAN : LibsOnPathAnswer(world, b)} :
        \E exists \in {b \in BOOLEAN : LibsExistsAnswer(world, r.a, onpath, b)} :
        \E stdout \in {o \in LibsOutputs \cup {<<>>} :
                         LibsStdoutAnswer(world, r.a, onpath, exists, o)} :
          /\ LET h == have_library_object_file(r.a, r.b, heap[1], found,
                        CallRun(onpath, exists), LibsRun(onpath, exists, stdout))
             IN /\ gate' = GateAfter(gate, r, OutcomeOf(h))
                /\ log' = log \o Spawns(h.calls)
                /\ world' = ObjectFileObserved(world, r.a, found, onpath, exists, stdout)
  /\ UNCHANGED <<pc, heap, sysinfo, glob, out, unitvars>>

\* list.insert(i, x) for i >= 0
insert(lst, i, x) ==
  LET k == IF i > Len(lst) THEN Len(lst) ELSE i
  IN SubSeq(lst, 1, k) \o <<x>> \o SubSeq(lst, k + 1, Len(lst))

\* lines 254-267
sys_path_for_cv2(sys_path, site_pkgs) ==
  LET local_site_pkgs == <<"/","u","s","r","/","l","o","c","a","l","/","l","i","b","/","p","y","t","h","o","n">> \o py_ver \o <<"/","s","i","t","e","-","p","a","c","k","a","g","e","s">>
      local_dist_pkgs == <<"/","u","s","r","/","l","o","c","a","l","/","l","i","b","/","p","y","t","h","o","n">> \o py_ver \o <<"/","d","i","s","t","-","p","a","c","k","a","g","e","s">>
      systm_site_pkgs == <<"/","u","s","r","/","l","i","b","/","p","y","t","h","o","n">> \o py_ver \o <<"/","s","i","t","e","-","p","a","c","k","a","g","e","s">>
      systm_dist_pkgs == <<"/","u","s","r","/","l","i","b","/","p","y","t","h","o","n">> \o py_ver \o <<"/","d","i","s","t","-","p","a","c","k","a","g","e","s">>
      p4 == insert(insert(insert(insert(sys_path, 1, local_site_pkgs),
                                 2, local_dist_pkgs), 3, systm_site_pkgs),
                   4, systm_dist_pkgs)
  IN IF site_pkgs # None THEN insert(p4, 1, site_pkgs.v) ELSE p4

\* lines 254-272
ImportCv2 ==
  /\ GateAt("import")
  /\ glob' = [glob EXCEPT
                !.sys_path = sys_path_for_cv2(glob.sys_path, glob.homebrew_site_pkgs)]
  /\ \E importable \in BOOLEAN :
       /\ Agrees(world.cv2, "cv2", importable)
       /\ gate' = GateAfter(gate, Requirements[gate.step],
                            IF importable THEN "pass" ELSE "fail")
       /\ world' = [world EXCEPT !.cv2 = DictSet(world.cv2, "cv2", importable)]
  /\ UNCHANGED <<pc, heap, sysinfo, log, out, unitvars>>

GateStep ==
  \/ CheckVersion
  \/ CheckTool
  \/ CheckLibrary
  \/ CheckObjectFile
  \/ ImportCv2

(***************************************************************************)
(* build_lst and the module-level script (lines 208-224, 275-400)          *)
(***************************************************************************)
\* the items of *items that are a str or the elements of a list, in order
RECURSIVE collected(_)
collected(items) ==
  IF items = <<>> THEN <<>>
  ELSE LET x == Head(items)
       IN (IF x.t = "str" THEN <<x.v>> ELSE IF x.t = "list" THEN x.v ELSE <<>>)
          \o collected(Tail(items))

\* list(set(lst)): every element once; the model lists them by first
\* occurrence (Python fixes no order)
RECURSIVE list_of_set(_)
list_of_set(lst) ==
  IF lst = <<>> THEN <<>>
  ELSE LET rest == list_of_set(SubSeq(lst, 1, Len(lst) - 1))
       IN IF in_list(lst[Len(lst)], rest) THEN rest ELSE Append(rest, lst[Len(lst)])

build_lst(items) == list_of_set(collected(items))

Extension(name, cargs, largs, idirs, libs, ldirs, sources, depends, language) ==
  [name |-> name, extra_compile_args |-> cargs, extra_link_args |-> largs,
   include_dirs |-> idirs, libraries |-> libs, library_dirs |-> ldirs,
   sources |-> sources, depends |-> depends, language |-> language]

\* an uncaught exception: the traceback goes to stderr, the exit status is 1
Crashed(exc) == [out EXCEPT !.status = 1, !.exc = exc]

\* stdout of `brew --prefix`, of `pythonX.Y-config --prefix`, and of
\* pkg-config for the packages the script asks about
BrewOutputs == {<<"/","u","s","r","/","l","o","c","a","l","\n">>, <<"/","o","p","t","/","h","b","\n">>}
PyPrefixOutputs == {<<"/","u","s","r","\n">>, <<"/","o","p","t","/","p","y","\n">>}
PythonCflagsOutput == <<"-","I","/","u","s","r","/","i","n","c","l","u","d","e","/","p","y","t","h","o","n","2",".","7"," ","-","I","/","u","s","r","/","i","n","c","l","u","d","e","\n">>
PythonLibsOutput == <<"-","l","p","y","t","h","o","n","2",".","7","\n">>
OpencvCflagsOutput == <<"-","I","/","u","s","r","/","i","n","c","l","u","d","e","/","o","p","e","n","c","v"," ","-","I","/","u","s","r","/","i","n","c","l","u","d","e","\n">>

\* lines 208-224
BrewPrefix ==
  /\ pc = "brew"
  /\ \E onpath \in {b \in BOOLEAN : Agrees(world.tools, <<"b","r","e","w">>, b)} :
     \E stdout \in IF onpath THEN BrewOutputs ELSE {<<>>} :
       LET environ == heap[1]
           homebrew_prefix ==
             IF onpath THEN Str(strip(stdout))
             ELSE IF "HOMEBREW_PREFIX" \in DOMAIN environ
                  THEN Str(environ["HOMEBREW_PREFIX"]) ELSE None
           \* under Python 3 the output read is bytes, and os.path.join of
           \* bytes and a str raises TypeError
           mixed == sysinfo.major = 3 /\ onpath
           homebrew_site_pkgs ==
             IF homebrew_prefix # None
             THEN Str(join(homebrew_prefix.v,
                           <<"l","i","b","/","p","y","t","h","o","n">> \o py_ver \o <<"/","s","i","t","e","-","p","a","c","k","a","g","e","s","/">>))
             ELSE None
       IN /\ world' = [world EXCEPT !.tools = DictSet(world.tools, <<"b","r","e","w">>, onpath)]
          /\ log' = Append(log, Spawn(Invocation(<<<<"b","r","e","w">>, <<"-","-","p","r","e","f","i","x">>>>,
                                                 extra_envs(environ))))
          /\ IF mixed
             THEN /\ pc' = "crashed"
                  /\ out' = Crashed("TypeError")
                  /\ glob' = [glob EXCEPT !.homebrew_prefix = homebrew_prefix]
             ELSE /\ pc' = "py_prefix"
                  /\ out' = out
                  /\ glob' = [glob EXCEPT !.homebrew_prefix = homebrew_prefix,
                                          !.homebrew_site_pkgs = homebrew_site_pkgs]
  /\ UNCHANGED <<heap, sysinfo, gate, unitvars>>

\* lines 275-284
PyPrefix ==
  /\ pc = "py_prefix"
  /\ LET tool == <<"p","y","t","h","o","n">> \o py_ver \o <<"-","c","o","n","f","i","g">>
     IN \E onpath \in {b \in BOOLEAN : Agrees(world.tools, tool, b)} :
        \E stdout \in IF onpath THEN PyPrefixOutputs ELSE {<<>>} :
          /\ world' = [world EXCEPT !.tools = DictSet(world.tools, tool, onpath)]
          /\ log' = Append(log, Spawn(Invocation(<<tool, <<"-","-","p","r","e","f","i","x">>>>,
                                                 extra_envs(heap[1]))))
          /\ glob' = [glob EXCEPT
                !.cflags = <<<<"-","g">>, <<"-","W","a","l","l">>>>,
                !.linkflags = <<>>,
                !.includes = <<<<"/","u","s","r","/","i","n","c","l","u","d","e">>, <<"/","u","s","r","/","l","o","c","a","l","/","i","n","c","l","u","d","e">>>>,
                !.ldflags = <<<<"/","u","s","r","/","l","i","b">>, <<"/","u","s","r","/","l","o","c","a","l","/","l","i","b">>>>,
                !.py_includes = None,
                !.py_libs = None,
                !.libav_libs = <<<<"a","v","c","o","d","e","c">>, <<"a","v","f","o","r","m","a","t">>, <<"a","v","u","t","i","l">>>>,
                !.py_prefix = IF onpath THEN strip(stdout) ELSE <<>>]
          /\ IF onpath
             THEN pc' = "platform_flags" /\ out' = out
             ELSE pc' = "crashed" /\ out' = Crashed("OSError")
  /\ UNCHANGED <<heap, sysinfo, gate, unitvars>>

\* what the machine answers `pkg-config <option> <package>`: whether
\* pkg-config is on PATH and whether it knows the package; for a package it
\* does not know it prints nothing
PackageRun(onpath, exists, stdout) ==
  IF ~onpath THEN NoLaunch
  ELSE IF exists THEN Launched(0, stdout) ELSE Launched(1, <<>>)

PackageObserved(w, package, onpath, exists) ==
  LET w1 == [w EXCEPT !.tools = DictSet(w.tools, <<"p","k","g","-","c","o","n","f","i","g">>, onpath)]
  IN IF ~onpath THEN w1
     ELSE [w1 EXCEPT !.exists = DictSet(w1.exists, package, exists)]

\* lines 285-288
PlatformFlagsLinux ==
  /\ pc = "platform_flags" /\ is_linux
  /\ LET package == <<"p","y","t","h","o","n","-">> \o py_ver
     IN \E onpath \in {b \in BOOLEAN : LibsOnPathAnswer(world, b)} :
        \E exists \in {b \in BOOLEAN : LibsExistsAnswer(world, package, onpath, b)} :
          LET r1 == pkg_config_res(<<<<"-","-","c","f","l","a","g","s">>, package>>, heap[1],
                                   PackageRun(onpath, exists, PythonCflagsOutput))
              r2 == pkg_config_res(<<<<"-","-","l","i","b","s">>, package>>, heap[1],
                                   PackageRun(onpath, exists, PythonLibsOutput))
              \* under Python 3 the output read is bytes, and bytes.split(' ')
              \* raises TypeError
              mixed == sysinfo.major = 3
          IN /\ world' = PackageObserved(world, package, onpath, exists)
             /\ IF ~onpath \/ mixed \/ r1.kind = "raise"
                THEN /\ log' = log \o Spawns(r1.calls)
                     /\ pc' = "crashed"
                     /\ out' = Crashed(IF ~onpath THEN "OSError"
                                       ELSE IF mixed THEN "TypeError" ELSE r1.exc)
                     /\ glob' = glob
                ELSE IF r2.kind = "raise"
                THEN /\ log' = log \o Spawns(r1.calls) \o Spawns(r2.calls)
                     /\ pc' = "crashed" /\ out' = Crashed(r2.exc)
                     /\ glob' = [glob EXCEPT !.py_includes = List(r1.val)]
                ELSE /\ log' = log \o Spawns(r1.calls) \o Spawns(r2.calls)
                     /\ pc' = "ext_libav" /\ out' = out
                     /\ glob' = [glob EXCEPT
                          !.py_includes = List(r1.val),
                          !.py_libs = List(r2.val),
                          !.linkflags = glob.linkflags
                                          \o <<<<"-","s","h","a","r","e","d">>, <<"-","W","l",",","-","-","e","x","p","o","r","t","-","d","y","n","a","m","i","c">>>>]
  /\ UNCHANGED <<heap, sysinfo, gate, unitvars>>

\* lines 289-311
PlatformFlagsDarwin ==
  /\ pc = "platform_flags" /\ ~is_linux /\ is_darwin
  /\ LET hp == glob.homebrew_prefix
         linkflags1 == glob.linkflags \o <<<<"-","a","r","c","h">>, <<"x","8","6","_","6","4">>>>
         includes1 == IF hp # None
                      THEN Append(glob.includes, join(hp.v, <<"i","n","c","l","u","d","e">>))
                      ELSE glob.includes
         ldflags1 == IF hp # None
                     THEN Append(glob.ldflags, join(hp.v, <<"l","i","b">>))
                     ELSE glob.ldflags
         \* under Python 3 py_prefix is bytes, and os.path.join of bytes and
         \* a str raises TypeError
         mixed == sysinfo.major = 3
     IN IF mixed
        THEN /\ pc' = "crashed" /\ out' = Crashed("TypeError")
             /\ glob' = [glob EXCEPT !.linkflags = linkflags1,
                                     !.includes = includes1, !.ldflags = ldflags1]
        ELSE /\ pc' = "ext_libav" /\ out' = out
             /\ glob' = [glob EXCEPT
                  !.includes = includes1,
                  !.ldflags = Append(ldflags1, join(glob.py_prefix, <<"l","i","b">>)),
                  !.py_includes =
                     Str(join(join(glob.py_prefix, <<"i","n","c","l","u","d","e">>), <<"p","y","t","h","o","n">> \o py_ver)),
                  !.linkflags =
                     Append(linkflags1,
                            join(glob.py_prefix,
                                 <<"l","i","b","/","l","i","b","p","y","t","h","o","n">> \o py_ver \o <<".","d","y","l","i","b">>))]
  /\ UNCHANGED <<heap, sysinfo, world, gate, log, unitvars>>

\* lines 313-327
ExtLibav ==
  /\ pc = "ext_libav"
  /\ LET py_libav_info ==
           Extension(<<"b","u","t","t","e","r","f","l","o","w",".","m","e","d","i","a",".","p","y","_","l","i","b","a","v","_","i","n","f","o">>,
                     glob.cflags,
                     glob.linkflags,
                     build_lst(<<Str(B_MEDIA), List(glob.includes), glob.py_includes>>),
                     build_lst(<<List(glob.libav_libs), glob.py_libs>>),
                     glob.ldflags,
                     <<join(B_MEDIA, <<"p","y","_","l","i","b","a","v","_","i","n","f","o",".","c">>)>>,
                     <<join(B_MEDIA, <<"p","y","_","l","i","b","a","v","_","i","n","f","o",".","h">>)>>,
                     <<"c">>)
     IN /\ glob' = [glob EXCEPT !.ext_modules = <<py_libav_info>>]
        /\ log' = Append(log, [ev |-> "Extension", argv |-> <<py_libav_info.name>>,
                               env |-> EmptyDict])
  /\ pc' = "cv_flags"
  /\ UNCHANGED <<heap, sysinfo, world, gate, out, unitvars>>

\* stdout of `ldconfig -p`
LdconfigOutputs ==
  {<<"2"," ","l","i","b","s"," ","f","o","u","n","d","\n","\t","l","i","b","z",".","s","o",".","1"," ","(","l","i","b","c","6",")"," ","=",">"," ","/","l","i","b","/","l","i","b","z",".","s","o",".","1","\n","\t","l","i","b","O","p","e","n","C","L",".","s","o",".","1"," ","(","l","i","b","c","6",")"," ","=",">"," ","/","u","s","r","/","l","i","b","/","l","i","b","O","p","e","n","C","L",".","s","o",".","1","\n">>,
   <<"2"," ","l","i","b","s"," ","f","o","u","n","d","\n","\t","l","i","b","O","p","e","n","C","L",".","s","o"," ","(","l","i","b","c","6",")"," ","=",">"," ","/","o","p","t","/","c","l","/","l","i","b","/","l","i","b","O","p","e","n","C","L",".","s","o","\n","\t","l","i","b","O","p","e","n","C","L",".","s","o",".","1"," ","(","l","i","b","c","6",")"," ","=",">"," ","/","u","s","r","/","l","i","b","/","l","i","b","O","p","e","n","C","L",".","s","o",".","1","\n">>,
   <<"1"," ","l","i","b","s"," ","f","o","u","n","d","\n","\t","l","i","b","z",".","s","o",".","1"," ","(","l","i","b","c","6",")"," ","=",">"," ","/","l","i","b","/","l","i","b","z",".","s","o",".","1","\n">>,
   <<"1"," ","l","i","b","s"," ","f","o","u","n","d","\n","\t","l","i","b","z",".","s","o",".","1"," ","(","l","i","b","c","6",")"," ","=",">"," ","/","o","p","t","/","l","i","b","O","p","e","n","C","L","/","l","i","b","z",".","s","o",".","1","\n">>,
   <<>>}


\* lines 329-338
CvFlagsLinux ==
  /\ pc = "cv_flags" /\ is_linux
  /\ \E onpath \in {b \in BOOLEAN : LibsOnPathAnswer(world, b)} :
     \E exists \in {b \in BOOLEAN : LibsExistsAnswer(world, <<"o","p","e","n","c","v">>, onpath, b)} :
     \E ldconfig \in {b \in BOOLEAN : Agrees(world.tools, <<"l","d","c","o","n","f","i","g">>, b)} :
     \E cache \in {o \in IF ldconfig THEN LdconfigOutputs ELSE {<<>>} :
                     Agrees(world.stdout, <<<<"l","d","c","o","n","f","i","g">>, <<"-","p">>>>, o)} :
       LET r == pkg_config_res(<<<<"-","-","c","f","l","a","g","s">>, <<"o","p","e","n","c","v">>>>, heap[1],
                               PackageRun(onpath, exists, OpencvCflagsOutput))
           run == IF ldconfig THEN Launched(0, cache) ELSE NoLaunch
           p == get_lib_installed_path(<<"l","i","b","O","p","e","n","C","L">>, heap[1], run)
           n == get_lib_filename_namespec(<<"l","i","b","O","p","e","n","C","L">>, heap[1], run)
           w1 == PackageObserved(world, <<"o","p","e","n","c","v">>, onpath, exists)
           w2 == [w1 EXCEPT !.tools = DictSet(w1.tools, <<"l","d","c","o","n","f","i","g">>, ldconfig)]
           w3 == IF ~ldconfig THEN w2
                 ELSE [w2 EXCEPT !.stdout =
                         DictSet(w2.stdout, <<<<"l","d","c","o","n","f","i","g">>, <<"-","p">>>>, cache)]
           g1 == [glob EXCEPT !.cflags = <<<<"-","g">>, <<"-","W","a","l","l">>, <<"-","s","t","d","=","c","+","+","1","1">>>>]
           g2 == [g1 EXCEPT !.cv_includes = r.val,
                            !.cv_libs = <<<<"o","p","e","n","c","v","_","c","o","r","e">>, <<"o","p","e","n","c","v","_","o","c","l">>,
                                          <<"o","p","e","n","c","v","_","i","m","g","p","r","o","c">>>>,
                            !.cl_ldflag = None, !.cl_lib = None]
       IN IF r.kind = "raise"
          THEN /\ world' = w1 /\ log' = log \o Spawns(r.calls)
               /\ glob' = g1
               /\ pc' = "crashed" /\ out' = Crashed(r.exc)
          ELSE IF p.kind = "raise" \/ p.val = NoneVal
          THEN \* os.path.dirname(None) raises AttributeError
               /\ world' = w3 /\ log' = log \o Spawns(r.calls) \o Spawns(p.calls)
               /\ glob' = g2
               /\ pc' = "crashed"
               /\ out' = Crashed(IF p.kind = "raise" THEN p.exc ELSE "AttributeError")
          ELSE IF n.kind = "raise"
          THEN /\ world' = w3
               /\ log' = log \o Spawns(r.calls) \o Spawns(p.calls) \o Spawns(n.calls)
               /\ glob' = [g2 EXCEPT !.cl_ldflag = Str(dirname(p.val))]
               /\ pc' = "crashed" /\ out' = Crashed(n.exc)
          ELSE /\ world' = w3
               /\ log' = log \o Spawns(r.calls) \o Spawns(p.calls) \o Spawns(n.calls)
               /\ glob' = [g2 EXCEPT !.cl_ldflag = Str(dirname(p.val)),
                                     !.cl_lib = Str(n.val)]
               /\ pc' = "ext_motion" /\ out' = out
  /\ UNCHANGED <<heap, sysinfo, gate, unitvars>>

\* lines 329-334, 339-352; py_libav_info.extra_link_args is the list object
\* linkflags, so extending linkflags extends it too
CvFlagsDarwin ==
  /\ pc = "cv_flags" /\ ~is_linux /\ is_darwin
  /\ \E onpath \in {b \in BOOLEAN : LibsOnPathAnswer(world, b)} :
     \E exists \in {b \in BOOLEAN : LibsExistsAnswer(world, <<"o","p","e","n","c","v">>, onpath, b)} :
       LET r == pkg_config_res(<<<<"-","-","c","f","l","a","g","s">>, <<"o","p","e","n","c","v">>>>, heap[1],
                               PackageRun(onpath, exists, OpencvCflagsOutput))
           g1 == [glob EXCEPT !.cflags = <<<<"-","g">>, <<"-","W","a","l","l">>, <<"-","s","t","d","=","c","+","+","1","1">>>>]
           numpy ==
             IF glob.homebrew_prefix # None
             THEN join(glob.homebrew_site_pkgs.v, <<"n","u","m","p","y","/","c","o","r","e","/","i","n","c","l","u","d","e">>)
             ELSE join(<<"/","S","y","s","t","e","m","/","L","i","b","r","a","r","y","/","F","r","a","m","e","w","o","r","k","s","/">>
                       \o <<"P","y","t","h","o","n",".","f","r","a","m","e","w","o","r","k","/","V","e","r","s","i","o","n","s","/">> \o py_ver \o <<"/","E","x","t","r","a","s","/","l","i","b","/">>
                       \o <<"p","y","t","h","o","n","/","n","u","m","p","y","/","c","o","r","e","/","i","n","c","l","u","d","e">>, <<>>)
           linkflags1 == glob.linkflags \o <<<<"-","f","r","a","m","e","w","o","r","k">>, <<"O","p","e","n","C","L">>>>
       IN /\ world' = PackageObserved(world, <<"o","p","e","n","c","v">>, onpath, exists)
          /\ log' = log \o Spawns(r.calls)
          /\ IF r.kind = "raise"
             THEN /\ glob' = g1
                  /\ pc' = "crashed" /\ out' = Crashed(r.exc)
             ELSE /\ glob' = [g1 EXCEPT
                       !.cv_includes = r.val,
                       !.cv_libs = <<<<"o","p","e","n","c","v","_","c","o","r","e">>, <<"o","p","e","n","c","v","_","o","c","l">>, <<"o","p","e","n","c","v","_","i","m","g","p","r","o","c">>>>,
                       !.cl_ldflag = None, !.cl_lib = None,
                       !.includes = Append(glob.includes, numpy),
                       !.linkflags = linkflags1,
                       !.ext_modules[1].extra_link_args = linkflags1]
                  /\ pc' = "ext_motion" /\ out' = out
  /\ UNCHANGED <<heap, sysinfo, gate, unitvars>>

\* lines 354-375
ExtMotion ==
  /\ pc = "ext_motion"
  /\ LET py_motion ==
           Extension(<<"b","u","t","t","e","r","f","l","o","w",".","m","o","t","i","o","n",".","p","y","_","m","o","t","i","o","n">>,
                     glob.cflags,
                     glob.linkflags,
                     build_lst(<<Str(B_VENDOR), Str(B_MOTION), List(glob.includes),
                                 List(glob.cv_includes), glob.py_includes>>),
                     build_lst(<<List(glob.cv_libs), glob.py_libs, glob.cl_lib>>),
                     build_lst(<<List(glob.ldflags), glob.cl_ldflag>>),
                     <<join(join(B_VENDOR, <<"o","p","e","n","c","v","-","n","d","a","r","r","a","y","-","c","o","n","v","e","r","s","i","o","n">>), <<"c","o","n","v","e","r","s","i","o","n",".","c","p","p">>),
                       join(B_MOTION, <<"o","c","l","_","i","n","t","e","r","p","o","l","a","t","e",".","c","p","p">>),
                       join(B_MOTION, <<"o","c","l","_","o","p","t","i","c","a","l","_","f","l","o","w",".","c","p","p">>),
                       join(B_MOTION, <<"p","y","_","m","o","t","i","o","n",".","c","p","p">>)>>,
                     <<join(join(B_VENDOR, <<"o","p","e","n","c","v","-","n","d","a","r","r","a","y","-","c","o","n","v","e","r","s","i","o","n">>), <<"c","o","n","v","e","r","s","i","o","n",".","h">>),
                       join(B_MOTION, <<"o","c","l","_","i","n","t","e","r","p","o","l","a","t","e",".","h">>),
                       join(B_MOTION, <<"o","c","l","_","o","p","t","i","c","a","l","_","f","l","o","w",".","h">>),
                       join(B_MOTION, <<"p","y","_","m","o","t","i","o","n",".","h">>)>>,
                     <<"c","+","+">>)
     IN /\ glob' = [glob EXCEPT !.ext_modules = Append(glob.ext_modules, py_motion)]
        /\ log' = Append(log, [ev |-> "Extension", argv |-> <<py_motion.name>>,
                               env |-> EmptyDict])
  /\ pc' = "call_gate"
  /\ UNCHANGED <<heap, sysinfo, world, gate, out, unitvars>>

\* line 377: check_dependencies is entered
CallGate ==
  /\ pc = "call_gate"
  /\ gate' = GateStart
  /\ pc' = "gate"
  /\ log' = Append(log, [ev |-> "check_dependencies", argv |-> <<>>, env |-> EmptyDict])
  /\ UNCHANGED <<heap, sysinfo, world, glob, out, unitvars>>

\* lines 377-380: the gate returned False
GateFailed ==
  /\ pc = "gate" /\ call.fn = "setup.py"
  /\ gate.status = "returned" /\ ~gate.ret
  /\ out' = [out EXCEPT !.stdout = Append(out.stdout, gate.error), !.status = 1]
  /\ pc' = "exited"
  /\ UNCHANGED <<heap, sysinfo, world, glob, gate, log, unitvars>>

\* setup() called whatever the gate returned (lines 378-380 left out): a
\* variant C3 tells from the code
SetupUnguarded ==
  /\ pc = "gate" /\ call.fn = "setup.py"
  /\ gate.status = "returned"
  /\ out' = [out EXCEPT !.setup = glob.ext_modules]
  /\ log' = Append(log, [ev |-> "setup", argv |-> <<>>, env |-> EmptyDict])
  /\ pc' = "setup"
  /\ UNCHANGED <<heap, sysinfo, world, glob, gate, unitvars>>

\* lines 377-400: the gate returned True and setup() gets the descriptors;
\* what setup() does with them is the toolchain's business
Setup ==
  /\ pc = "gate" /\ call.fn = "setup.py"
  /\ gate.status = "returned" /\ gate.ret
  /\ out' = [out EXCEPT !.setup = glob.ext_modules]
  /\ log' = Append(log, [ev |-> "setup", argv |-> <<>>, env |-> EmptyDict])
  /\ pc' = "setup"
  /\ UNCHANGED <<heap, sysinfo, world, glob, gate, unitvars>>

\* line 377: an exception left check_dependencies
GateRaised ==
  /\ pc = "gate" /\ call.fn = "setup.py"
  /\ gate.status = "raised"
  /\ out' = Crashed("OSError")
  /\ pc' = "crashed"
  /\ UNCHANGED <<heap, sysinfo, world, glob, gate, log, unitvars>>

RunEnvirons ==
  {[k \in {"PATH"} |-> <<"/","u","s","r","/","b","i","n">>],
   [k \in {"PATH", "HOMEBREW_PREFIX"} |->
      IF k = "PATH" THEN <<"/","u","s","r","/","b","i","n">> ELSE <<"/","u","s","r","/","l","o","c","a","l">>]}

Init ==
  /\ pc = "brew"
  /\ call = [fn |-> "setup.py"]
  /\ res = Return(NoneVal, <<>>)
  /\ ncalls = 0
  /\ heap \in {<<e>> : e \in RunEnvirons}
  /\ sysinfo \in [platform : {<<"l","i","n","u","x","2">>, <<"d","a","r","w","i","n">>}, major : {2, 3}, minor : {7}]
  /\ world = NothingObserved
  /\ glob = [NoGlobals EXCEPT !.sys_path = <<ROOT_PATH, <<"/","u","s","r","/","l","i","b","/","p","y","t","h","o","n">> \o py_ver>>]
  /\ gate = GateIdle
  /\ log = <<>>
  /\ out = NoOutput

Next ==
  \/ BrewPrefix
  \/ PyPrefix
  \/ PlatformFlagsLinux
  \/ PlatformFlagsDarwin
  \/ ExtLibav
  \/ CvFlagsLinux
  \/ CvFlagsDarwin
  \/ ExtMotion
  \/ CallGate
  \/ CheckVersion
  \/ CheckTool
  \/ CheckLibrary
  \/ CheckObjectFile
  \/ ImportCv2
  \/ GateFailed
  \/ Setup
  \/ GateRaised

Spec == Init /\ [][Next]_vars

(***************************************************************************)
(* check_dependencies() called on its own: any interpreter, either         *)
(* platform, with or without a Homebrew site-packages directory            *)
(***************************************************************************)
SomeEnvirons ==
  {[k \in {"PATH"} |-> <<"/","u","s","r","/","b","i","n">>],
   [k \in {"PATH", "PKG_CONFIG_PATH"} |-> IF k = "PATH" THEN <<"/","u","s","r","/","b","i","n">> ELSE <<"/","o","p","t","/","p","c">>]}

Platforms == {<<"l","i","n","u","x","2">>, <<"d","a","r","w","i","n">>}

GateInit ==
  /\ pc = "gate"
  /\ call = [fn |-> "check_dependencies"]
  /\ res = Return(NoneVal, <<>>)
  /\ ncalls = 0
  /\ heap \in {<<e>> : e \in SomeEnvirons}
  /\ sysinfo \in [platform : Platforms, major : {2, 3}, minor : {7}]
  /\ world = NothingObserved
  /\ glob \in {[NoGlobals EXCEPT !.homebrew_site_pkgs = sp,
                                 !.sys_path = <<ROOT_PATH, <<"/","u","s","r","/","l","i","b","/","p","y","t","h","o","n","2",".","7">>>>] :
               sp \in {None, Str(<<"/","u","s","r","/","l","o","c","a","l","/","l","i","b","/","p","y","t","h","o","n","2",".","7","/","s","i","t","e","-","p","a","c","k","a","g","e","s","/">>)}}
  /\ gate = GateStart
  /\ log = <<>>
  /\ out = NoOutput

GateSpec == GateInit /\ [][GateStep]_vars

(***************************************************************************)
(* Inputs of the unit calls                                                *)
(***************************************************************************)
MaxPieces == 3     \* a name is built from at most this many pieces
MaxTokens == 3     \* a pkg-config output is built from at most this many pieces
MaxCalls == 3      \* get_extra_envs() is called at most this many times

RECURSIVE Concats(_, _)
Concats(pieces, n) ==
  IF n = 0 THEN {<<>>}
  ELSE LET S == Concats(pieces, n - 1)
       IN S \cup {s \o q : s \in S, q \in pieces}

NamePieces ==
  {<<"-","l">>, <<"l","i","b">>, <<".","s","o">>, <<".","d","y","l","i","b">>, <<".","a">>, <<"/">>, <<" ">>, <<"x">>}

ExampleNames == {<<"-","l","a","v","c","o","d","e","c">>, <<"l","i","b","o","p","e","n","c","v","_","c","o","r","e",".","s","o",".","3",".","4">>}

Names == Concats(NamePieces, MaxPieces) \cup ExampleNames

OutputPieces ==
  {<<" ">>, <<"-">>, <<"-","I","/","i">>, <<"-","L","/","d">>, <<"-","l","l","i","b","x",".","s","o">>, <<"-","l","z",".","a">>, <<"-","D","F","O","O">>, <<"l","i","b","y">>, <<"\n">>}

ExampleOutputs == {<<"-","I","/","u","s","r","/","i","n","c","l","u","d","e","/","f","o","o"," ","-","D","F","O","O">>}

Outputs == Concats(OutputPieces, MaxTokens) \cup ExampleOutputs

PkgConfigPaths == {<<>>, <<"/","o","p","t","/","p","c">>, <<"/","a",":","/","b">>, local_pkg_config_paths}
HomebrewPrefixes == {<<"/","u","s","r","/","l","o","c","a","l">>, <<"/","o","p","t","/","h","b">>}

\* os.environ: a dict; a variable is absent when it is no key
Environs ==
  LET base == {[k \in {"PATH"} |-> <<"/","u","s","r","/","b","i","n">>], [k \in {} |-> <<>>]}
      withPc == base \cup {DictSet(d, "PKG_CONFIG_PATH", v) : d \in base, v \in PkgConfigPaths}
  IN withPc \cup {DictSet(d, "HOMEBREW_PREFIX", v) : d \in withPc, v \in HomebrewPrefixes}

ToolNames == {<<"p","k","g","-","c","o","n","f","i","g">>, <<"l","d","c","o","n","f","i","g">>, <<"p","y","t","h","o","n","2",".","7","-","c","o","n","f","i","g">>}

LibraryNames ==
  {<<"o","p","e","n","c","v">>, <<"O","p","e","n","C","L">>, <<"-","l","a","v","c","o","d","e","c">>, <<"l","i","b","a","v","u","t","i","l",".","s","o">>, <<"m","a","d","e","u","p","_","l","i","b","_","x","y","z">>}

ObjectFiles == {<<"l","i","b","o","p","e","n","c","v","_","o","c","l",".","s","o">>, <<"l","i","b","o","p","e","n","c","v","_","c","o","r","e",".","s","o">>, <<"l","i","b","o","p","e","n","c","v","_","i","m","g","p","r","o","c",".","s","o">>}

\* outcomes of subprocess.call: exit status 0 or 1, or the program is not
\* there to be launched
CallRuns == {Launched(0, <<>>), Launched(1, <<>>), NoLaunch}

LibsRuns == {Launched(0, o) : o \in LibsOutputs} \cup {Launched(1, <<>>), NoLaunch}

LdconfigRuns == {Launched(0, o) : o \in LdconfigOutputs} \cup {NoLaunch}

(***************************************************************************)
(* Unit calls: one function of setup.py is called on one input             *)
(***************************************************************************)
UnitInit ==
  /\ pc = "call"
  /\ sysinfo = [platform |-> <<"l","i","n","u","x","2">>, major |-> 2, minor |-> 7]
  /\ world = NothingObserved
  /\ glob = NoGlobals
  /\ gate = GateIdle
  /\ log = <<>>
  /\ out = NoOutput
  /\ res = Return(NoneVal, <<>>)
  /\ ncalls = 0
  /\ \/ /\ call \in [fn : {"get_lib_short_name"}, name : Names]
        /\ heap = <<[k \in {} |-> <<>>]>>
     \/ /\ call \in [fn : {"pkg_config_res"}, opts : {<<<<"-","-","c","f","l","a","g","s">>, <<"f","a","k","e","p","k","g">>>>},
                     run : {Launched(0, o) : o \in Outputs} \cup {NoLaunch}]
        /\ heap \in {<<e>> : e \in SomeEnvirons}
     \/ /\ call \in [fn : {"get_extra_envs"}, environ : Environs]
        /\ heap = <<call.environ>>
     \/ /\ call \in [fn : {"have_command"}, name : ToolNames, run : CallRuns]
        /\ heap \in {<<e>> : e \in SomeEnvirons}
     \/ /\ call \in [fn : {"have_library"}, name : LibraryNames,
                     found : BOOLEAN, run : CallRuns]
        /\ heap \in {<<e>> : e \in SomeEnvirons}
     \/ /\ call \in [fn : {"have_library_object_file"}, libname : {<<"o","p","e","n","c","v">>},
                     name : ObjectFiles, found : BOOLEAN, run : CallRuns,
                     libs_run : LibsRuns]
        /\ heap \in {<<e>> : e \in SomeEnvirons}
     \/ /\ call \in [fn : {"get_lib_filename_namespec"},
                     libname : {<<"l","i","b","O","p","e","n","C","L">>, <<"l","i","b","z">>}, run : LdconfigRuns]
        /\ heap \in {<<e>> : e \in SomeEnvirons}

Call_get_lib_short_name ==
  /\ pc = "call" /\ call.fn = "get_lib_short_name"
  /\ res' = Return(get_lib_short_name(call.name), <<>>)
  /\ pc' = "done"
  /\ UNCHANGED <<call, heap, ncalls, runvars>>

Call_pkg_config_res ==
  /\ pc = "call" /\ call.fn = "pkg_config_res"
  /\ res' = pkg_config_res(call.opts, heap[1], call.run)
  /\ pc' = "done"
  /\ UNCHANGED <<call, heap, ncalls, runvars>>

\* the caller keeps every returned dict, so the heap holds them all
Call_get_extra_envs ==
  /\ pc = "call" /\ call.fn = "get_extra_envs"
  /\ ncalls < MaxCalls
  /\ LET r == get_extra_envs(heap)
     IN /\ heap' = r.heap
        /\ res' = Return(r.ret, <<>>)
  /\ ncalls' = ncalls + 1
  /\ UNCHANGED <<pc, call, runvars>>

Call_have_command ==
  /\ pc = "call" /\ call.fn = "have_command"
  /\ res' = have_command(call.name, heap[1], call.run)
  /\ pc' = "done"
  /\ UNCHANGED <<call, heap, ncalls, runvars>>

Call_have_library ==
  /\ pc = "call" /\ call.fn = "have_library"
  /\ res' = have_library(call.name, heap[1], call.found, call.run)
  /\ pc' = "done"
  /\ UNCHANGED <<call, heap, ncalls, runvars>>

Call_have_library_object_file ==
  /\ pc = "call" /\ call.fn = "have_library_object_file"
  /\ res' = have_library_object_file(call.libname, call.name, heap[1],
                                     call.found, call.run, call.libs_run)
  /\ pc' = "done"
  /\ UNCHANGED <<call, heap, ncalls, runvars>>

Call_get_lib_filename_namespec ==
  /\ pc = "call" /\ call.fn = "get_lib_filename_namespec"
  /\ res' = get_lib_filename_namespec(call.libname, heap[1], call.run)
  /\ pc' = "done"
  /\ UNCHANGED <<call, heap, ncalls, runvars>>

UnitNext ==
  \/ Call_get_lib_short_name
  \/ Call_pkg_config_res
  \/ Call_get_extra_envs
  \/ Call_have_command
  \/ Call_have_library
  \/ Call_have_library_object_file
  \/ Call_get_lib_filename_namespec

UnitSpec == UnitInit /\ [][UnitNext]_vars

Returned(fn) == pc = "done" /\ call.fn = fn

(***************************************************************************)
(* C4 (as amended). get_lib_short_name is idempotent on every name whose   *)
(* canonical form has no leading or trailing whitespace and does not       *)
(* itself begin with '-l' or 'lib': applying it to such a canonical form   *)
(* returns it unchanged; and '-lavcodec' gives 'avcodec',                  *)
(* 'libopencv_core.so.3.4' gives 'opencv_core'.                            *)
(***************************************************************************)
NoMarkerLeft(c) ==
  strip(c) = c /\ ~startswith(c, <<"-","l">>) /\ ~startswith(c, <<"l","i","b">>)

\* C4 (as amended): a canonical form with no marker left is a fixed point of
\* get_lib_short_name, and the two examples give 'avcodec' and 'opencv_core'
C4_IdempotentOnCanonical ==
  Returned("get_lib_short_name") =>
    /\ NoMarkerLeft(res.val) => get_lib_short_name(res.val) = res.val
    /\ call.name = <<"-","l","a","v","c","o","d","e","c">> => res.val = <<"a","v","c","o","d","e","c">>
    /\ call.name = <<"l","i","b","o","p","e","n","c","v","_","c","o","r","e",".","s","o",".","3",".","4">> => res.val = <<"o","p","e","n","c","v","_","c","o","r","e">>

\* C4 witness: a name with a prefix and a suffix was canonicalised to a form
\* with no marker left
C4_Witness ==
  /\ Returned("get_lib_short_name")
  /\ call.name = <<"l","i","b","o","p","e","n","c","v","_","c","o","r","e",".","s","o",".","3",".","4">>
  /\ NoMarkerLeft(res.val) /\ res.val # call.name

\* C4 as stated: get_lib_short_name(get_lib_short_name(x)) =
\* get_lib_short_name(x) for every bounded input x, and the two examples
C4_Idempotent ==
  Returned("get_lib_short_name") =>
    /\ get_lib_short_name(res.val) = res.val
    /\ call.name = <<"-","l","a","v","c","o","d","e","c">> => res.val = <<"a","v","c","o","d","e","c">>
    /\ call.name = <<"l","i","b","o","p","e","n","c","v","_","c","o","r","e",".","s","o",".","3",".","4">> => res.val = <<"o","p","e","n","c","v","_","c","o","r","e">>

(***************************************************************************)
(* C5. get_extra_envs never mutates os.environ; every call returns a fresh *)
(* dict equal to os.environ except that PKG_CONFIG_PATH is the original    *)
(* value, ':' and the three local paths (or the three paths alone when it  *)
(* was absent); repeated calls do not accumulate the paths.                *)
(***************************************************************************)
AugmentedFrom(e) ==
  LET three == <<"/","u","s","r","/","l","o","c","a","l","/","l","i","b","/","p","k","g","c","o","n","f","i","g",":","/","u","s","r","/","l","o","c","a","l","/","p","k","g","c","o","n","f","i","g",":","/","u","s","r","/","s","h","a","r","e","/","p","k","g","c","o","n","f","i","g">>
  IN [k \in (DOMAIN e) \cup {"PKG_CONFIG_PATH"} |->
        IF k # "PKG_CONFIG_PATH" THEN e[k]
        ELSE IF k \in DOMAIN e THEN e[k] \o <<":">> \o three ELSE three]

\* C5: after any number of calls os.environ (heap[1]) is as it was, and every
\* returned dict is a fresh object holding the augmentation of os.environ
C5_EnvironNeverMutated ==
  call.fn = "get_extra_envs" =>
    /\ heap[1] = call.environ
    /\ Len(heap) = ncalls + 1
    /\ \A i \in 2..Len(heap) : heap[i] = AugmentedFrom(call.environ)
    /\ ncalls > 0 => res.val = Len(heap) /\ res.val # 1

\* C5 witness: a third call returned, with PKG_CONFIG_PATH set beforehand
C5_Witness ==
  /\ call.fn = "get_extra_envs" /\ ncalls = 3
  /\ "PKG_CONFIG_PATH" \in DOMAIN call.environ
  /\ heap[res.val] # heap[1]


(***************************************************************************)
(* C9 (as stated). For every pkg-config output, pkg_config_res returns     *)
(* exactly one value per non-empty whitespace-separated token, in output   *)
(* order: one leading '-' is stripped, then after 'l' the remainder passed *)
(* through get_lib_short_name, after 'L' or 'I' the remainder, otherwise   *)
(* the whole token passed through get_lib_short_name.                      *)
(***************************************************************************)
RECURSIVE WhitespaceTokens(_)
WhitespaceTokens(s) ==
  LET t == strip(s)
      ws == {i \in 1..Len(t) : t[i] \in Whitespace}
  IN IF t = <<>> THEN <<>>
     ELSE IF ws = {} THEN <<t>>
     ELSE <<SubSeq(t, 1, MinOf(ws) - 1)>> \o WhitespaceTokens(From(t, MinOf(ws)))

ClaimedValue(tok) ==
  LET x == IF tok[1] = "-" THEN From(tok, 1) ELSE tok
  IN IF x # <<>> /\ x[1] = "l" THEN get_lib_short_name(From(x, 1))
     ELSE IF x # <<>> /\ x[1] \in {"L", "I"} THEN From(x, 1)
     ELSE get_lib_short_name(x)

\* C9: pkg_config_res returns one claimed value per whitespace-separated
\* token of the output, in order
C9_OneValuePerToken ==
  (Returned("pkg_config_res") /\ call.run.launched) =>
    LET toks == WhitespaceTokens(call.run.stdout)
    IN /\ res.kind = "return"
       /\ res.val = [i \in 1..Len(toks) |-> ClaimedValue(toks[i])]

\* the part of C9 the code does satisfy: the example of the specification
C9_Example ==
  (Returned("pkg_config_res") /\ call.run.launched
     /\ call.run.stdout = <<"-","I","/","u","s","r","/","i","n","c","l","u","d","e","/","f","o","o"," ","-","D","F","O","O">>) =>
    res = Return(<<<<"/","u","s","r","/","i","n","c","l","u","d","e","/","f","o","o">>, <<"D","F","O","O">>>>, res.calls)

(***************************************************************************)
(* C6 (as stated). get_lib_filename_namespec fails with a documented error *)
(* whenever get_lib_installed_path returns None, and returns ':' followed  *)
(* by the filename component of the path when the lookup succeeds.         *)
(***************************************************************************)
\* the errors get_lib_filename_namespec documents or raises itself: its
\* docstring names none and its body has no raise statement
DocumentedErrors == {}

\* C6: a lookup that returns None makes get_lib_filename_namespec fail with
\* a documented error; a path found gives ':' and its filename component
C6_NamespecDocumentedError ==
  Returned("get_lib_filename_namespec") =>
    LET p == get_lib_installed_path(call.libname, heap[1], call.run)
    IN p.kind = "return" =>
         IF p.val = NoneVal
         THEN res.kind = "raise" /\ res.exc \in DocumentedErrors
         ELSE res.kind = "return" /\ res.val = <<":">> \o basename(p.val)

\* the half of C6 the code does satisfy
C6_NamespecOfFoundPath ==
  Returned("get_lib_filename_namespec") =>
    LET p == get_lib_installed_path(call.libname, heap[1], call.run)
    IN (p.kind = "return" /\ p.val # NoneVal) =>
         res.kind = "return" /\ res.val = <<":">> \o basename(p.val)

(***************************************************************************)
(* C7 (as stated). An absent tool or library is reported as False, never   *)
(* as a raised error: have_command returns False when `which` exits        *)
(* non-zero and when `which` cannot be launched; have_library returns      *)
(* False when find_library finds nothing and pkg-config cannot be launched.*)
(***************************************************************************)
\* C7: have_command and have_library return False, and raise nothing, when
\* the probe reports absence and when the probing program cannot be launched
C7_AbsentIsFalseNotRaised ==
  /\ (Returned("have_command") /\ (~call.run.launched \/ call.run.status # 0)) =>
       res.kind = "return" /\ res.val = FALSE
  /\ (Returned("have_library") /\ ~call.found /\ ~call.run.launched) =>
       res.kind = "return" /\ res.val = FALSE

\* the part of C7 the code does satisfy: a probe that ran and reported
\* absence gives False
C7_ExitStatusIsFalse ==
  /\ (Returned("have_command") /\ call.run.launched /\ call.run.status # 0) =>
       res.kind = "return" /\ res.val = FALSE
  /\ (Returned("have_library") /\ ~call.found /\ call.run.launched
        /\ call.run.status # 0) =>
       res.kind = "return" /\ res.val = FALSE

(***************************************************************************)
(* C8 (as stated). have_library searches by the canonical name first and   *)
(* returns True without invoking pkg-config when the search finds the      *)
(* library; otherwise it invokes `pkg-config --exists` once, with the      *)
(* original name, under the augmented environment, and returns True iff    *)
(* the exit code is 0; it returns False whenever neither reports the       *)
(* library; have_library_object_file returns False without running         *)
(* `pkg-config --libs` whenever have_library is False.                     *)
(***************************************************************************)
IsPkgConfig(c) == c.argv[1] = <<"p","k","g","-","c","o","n","f","i","g">>

PkgConfigCalls(cs) == {i \in 1..Len(cs) : IsPkgConfig(cs[i])}

\* C8: find_library by canonical name first; True at once when found; else
\* one `pkg-config --exists <original name>` under the augmented environment,
\* True iff it exits 0, False otherwise; no `--libs` run when the library
\* is not there
C8_SearchThenPkgConfig ==
  /\ Returned("have_library") =>
       /\ res.calls[1].argv = <<<<"f","i","n","d","_","l","i","b","r","a","r","y">>, get_lib_short_name(call.name)>>
       /\ call.found =>
            res.kind = "return" /\ res.val = TRUE /\ PkgConfigCalls(res.calls) = {}
       /\ ~call.found =>
            /\ PkgConfigCalls(res.calls) = {2} /\ Len(res.calls) = 2
            /\ res.calls[2] = Invocation(<<<<"p","k","g","-","c","o","n","f","i","g">>, <<"-","-","e","x","i","s","t","s">>, call.name>>,
                                         AugmentedFrom(heap[1]))
            /\ res.kind = "return"
            /\ res.val = (call.run.launched /\ call.run.status = 0)
  /\ Returned("have_library_object_file") =>
       LET h == have_library(call.libname, heap[1], call.found, call.run)
       IN (h.kind = "return" /\ h.val = FALSE) =>
            /\ res.kind = "return" /\ res.val = FALSE
            /\ \A i \in 1..Len(res.calls) : res.calls[i].argv[2] # <<"-","-","l","i","b","s">>

\* the part of C8 the code does satisfy: the same, for the calls in which
\* pkg-config could be launched
C8_WhenPkgConfigRuns ==
  /\ Returned("have_library") =>
       /\ res.calls[1].argv = <<<<"f","i","n","d","_","l","i","b","r","a","r","y">>, get_lib_short_name(call.name)>>
       /\ call.found =>
            res.kind = "return" /\ res.val = TRUE /\ PkgConfigCalls(res.calls) = {}
       /\ ~call.found =>
            /\ PkgConfigCalls(res.calls) = {2} /\ Len(res.calls) = 2
            /\ res.calls[2] = Invocation(<<<<"p","k","g","-","c","o","n","f","i","g">>, <<"-","-","e","x","i","s","t","s">>, call.name>>,
                                         AugmentedFrom(heap[1]))
            /\ call.run.launched =>
                 res.kind = "return" /\ res.val = (call.run.status = 0)
  /\ Returned("have_library_object_file") =>
       LET h == have_library(call.libname, heap[1], call.found, call.run)
       IN (h.kind = "return" /\ h.val = FALSE) =>
            /\ res.kind = "return" /\ res.val = FALSE
            /\ \A i \in 1..Len(res.calls) : res.calls[i].argv[2] # <<"-","-","l","i","b","s">>


(***************************************************************************)
(* C1: the gate runs before any assembly step                              *)
(***************************************************************************)
\* the assembly steps: `pythonX.Y-config --prefix`, the pkg-config
\* --cflags/--libs queries for python-X.Y and opencv's --cflags, the
\* `ldconfig -p` lookups, and the construction of an Extension
IsAssembly(e) ==
  \/ e.ev = "Extension"
  \/ /\ e.ev = "spawn"
     /\ \/ e.argv = <<<<"p","y","t","h","o","n">> \o py_ver \o <<"-","c","o","n","f","i","g">>, <<"-","-","p","r","e","f","i","x">>>>
        \/ e.argv = <<<<"p","k","g","-","c","o","n","f","i","g">>, <<"-","-","c","f","l","a","g","s">>, <<"p","y","t","h","o","n","-">> \o py_ver>>
        \/ e.argv = <<<<"p","k","g","-","c","o","n","f","i","g">>, <<"-","-","l","i","b","s">>, <<"p","y","t","h","o","n","-">> \o py_ver>>
        \/ e.argv = <<<<"p","k","g","-","c","o","n","f","i","g">>, <<"-","-","c","f","l","a","g","s">>, <<"o","p","e","n","c","v">>>>
        \/ e.argv = <<<<"l","d","c","o","n","f","i","g">>, <<"-","p">>>>

GatePassed == gate.status = "returned" /\ gate.ret

\* C1: in every state of every run, an assembly step has executed only if
\* check_dependencies has already returned success.
C1_AssemblyOnlyAfterGate ==
  \A i \in 1..Len(log) : IsAssembly(log[i]) => GatePassed

\* What the script does instead: when check_dependencies is entered, both
\* Extension descriptors have already been built.
C1_GateAfterAssembly ==
  gate.status # "idle" =>
    /\ Len(glob.ext_modules) = 2
    /\ \E i \in 1..Len(log) :
         /\ log[i].ev = "check_dependencies"
         /\ \A j \in 1..Len(log) : IsAssembly(log[j]) => j < i

C1_GateReached == gate.status = "running" /\ pc = "gate" /\ call.fn = "setup.py"

(***************************************************************************)
(* C2: check_dependencies reports the first failing requirement            *)
(***************************************************************************)
\* the requirements probed so far are the first ones of the order, and all
\* but the last one passed
ProbedInOrder ==
  /\ Len(gate.probes) <= Len(Requirements)
  /\ \A i \in 1..Len(gate.probes) :
       /\ gate.probes[i].req = Requirements[i]
       /\ i < Len(gate.probes) => gate.probes[i].outcome = "pass"

LastOutcome == gate.probes[Len(gate.probes)].outcome

\* C2: check_dependencies probes the requirements in order and, for every
\* combination of probe outcomes, returns (False, message of the first
\* failing requirement) having probed nothing later, or (True, None) exactly
\* when every requirement passed; a version mismatch runs no subprocess.
C2_FirstFailureReported ==
  /\ ProbedInOrder
  /\ (sysinfo.major # 2 /\ gate.probes # <<>>) => log = <<>>
  /\ gate.status # "running" =>
       /\ gate.status = "returned"
       /\ IF gate.ret
          THEN /\ Len(gate.probes) = Len(Requirements)
               /\ LastOutcome = "pass"
               /\ gate.error = NoneVal
          ELSE /\ LastOutcome = "fail"
               /\ gate.error = ErrorMessage(Requirements[Len(gate.probes)])

\* The part of C2 that the function keeps: the order, the stop at the first
\* requirement that does not pass, and the result whenever it returns one.
C2_OrderAndResultWhenReturned ==
  /\ ProbedInOrder
  /\ (sysinfo.major # 2 /\ gate.probes # <<>>) =>
       /\ log = <<>>
       /\ gate.status = "returned" /\ ~gate.ret
       /\ gate.error = <<"P","y","t","h","o","n"," ","3",".","7"," ","i","s"," ","n","o","t"," ","v","e","r","s","i","o","n"," ","2",".","x">>
  /\ gate.status = "returned" =>
       IF gate.ret
       THEN /\ Len(gate.probes) = Len(Requirements)
            /\ LastOutcome = "pass"
            /\ gate.error = NoneVal
       ELSE /\ LastOutcome = "fail"
            /\ gate.error = ErrorMessage(Requirements[Len(gate.probes)])
  /\ gate.status = "raised" => LastOutcome = "raise"

C2_ObjectFileReported ==
  /\ gate.status = "returned" /\ ~gate.ret
  /\ gate.error = <<"o","p","e","n","c","v"," ","l","i","b","r","a","r","y"," ","i","s"," ","m","i","s","s","i","n","g"," ","o","b","j","e","c","t"," ","f","i","l","e"," ","l","i","b","o","p","e","n","c","v","_","o","c","l",".","s","o">>

(***************************************************************************)
(* C3: setup() is reached only through a passed gate                       *)
(***************************************************************************)
SetupInvoked ==
  \/ out.setup # <<>>
  \/ pc = "setup"
  \/ \E i \in 1..Len(log) : log[i].ev = "setup"

\* C3: setup() is invoked only when check_dependencies returned (True,
\* None); when it returned False, setup() is never invoked and, once the
\* script has left line 377, the message has been printed and the process
\* has exited with status 1.
C3_SetupOnlyAfterGatePassed ==
  /\ SetupInvoked => (GatePassed /\ gate.error = NoneVal)
  /\ (gate.status = "returned" /\ ~gate.ret) =>
       /\ ~SetupInvoked
       /\ pc \in {"gate", "exited"}
       /\ pc = "exited" =>
            /\ out.stdout = <<gate.error>>
            /\ out.status = 1
  /\ pc = "exited" => (gate.status = "returned" /\ ~gate.ret)

C3_Witness ==
  /\ pc = "exited"
  /\ out.stdout = <<<<"a","v","u","t","i","l"," ","l","i","b","r","a","r","y"," ","i","s"," ","n","e","e","d","e","d"," ","t","o"," ","c","o","m","p","l","e","t","e"," ","t","h","e"," ","b","u","i","l","d"," ","p","r","o","c","e","s","s">>>>
  /\ out.status = 1
  /\ out.setup = <<>>

C3_SetupReached == pc = "setup" /\ Len(out.setup) = 2

(***************************************************************************)
(* C10: the collections of the descriptors                                 *)
(***************************************************************************)
NoDuplicates(lst) ==
  \A i \in 1..Len(lst) : \A j \in 1..Len(lst) : lst[i] = lst[j] => i = j

Deduplicated(d) ==
  /\ NoDuplicates(d.include_dirs)
  /\ NoDuplicates(d.libraries)
  /\ NoDuplicates(d.library_dirs)

\* C10: in both descriptors include_dirs, libraries and library_dirs hold
\* no entry twice, and sources and depends keep the declared order.
C10_NoDuplicateEntries ==
  \A i \in 1..Len(glob.ext_modules) :
    LET d == glob.ext_modules[i]
    IN /\ Deduplicated(d)
       /\ d.name = <<"b","u","t","t","e","r","f","l","o","w",".","m","e","d","i","a",".","p","y","_","l","i","b","a","v","_","i","n","f","o">> =>
            /\ d.sources = <<join(B_MEDIA, <<"p","y","_","l","i","b","a","v","_","i","n","f","o",".","c">>)>>
            /\ d.depends = <<join(B_MEDIA, <<"p","y","_","l","i","b","a","v","_","i","n","f","o",".","h">>)>>
       /\ d.name = <<"b","u","t","t","e","r","f","l","o","w",".","m","o","t","i","o","n",".","p","y","_","m","o","t","i","o","n">> =>
            /\ Len(d.sources) = 4 /\ Len(d.depends) = 4
            /\ d.sources[4] = join(B_MOTION, <<"p","y","_","m","o","t","i","o","n",".","c","p","p">>)
            /\ d.depends[4] = join(B_MOTION, <<"p","y","_","m","o","t","i","o","n",".","h">>)

\* What holds of the descriptors: everything C10 says of py_motion, and of
\* py_libav_info everything but library_dirs, which is ldflags itself.
C10_AllButLibavLibraryDirs ==
  \A i \in 1..Len(glob.ext_modules) :
    LET d == glob.ext_modules[i]
    IN /\ NoDuplicates(d.include_dirs)
       /\ NoDuplicates(d.libraries)
       /\ d.name = <<"b","u","t","t","e","r","f","l","o","w",".","m","o","t","i","o","n",".","p","y","_","m","o","t","i","o","n">> => NoDuplicates(d.library_dirs)
       /\ d.name = <<"b","u","t","t","e","r","f","l","o","w",".","m","e","d","i","a",".","p","y","_","l","i","b","a","v","_","i","n","f","o">> => d.library_dirs = glob.ldflags

C10_BothBuilt == Len(glob.ext_modules) = 2 /\ is_darwin /\ pc = "call_gate"

=============================================================================
